---------------------------- MODULE Spec2Model ----------------------------
(* A model of adafruit_usb_descriptor/standard.py: the five fixed-schema   *)
(* descriptors (Endpoint, Interface, InterfaceAssociation, Configuration,  *)
(* Device), the Interface's subdescriptor list and its __bytes__, the two  *)
(* hand-written field properties, and the StringDescriptor.                *)
(*                                                                         *)
(* core.Descriptor (the base class: __init__ from keyword arguments and    *)
(* __bytes__) is not part of the source tree; it is modelled from the      *)
(* specification (sections 3 and 4.1) and from how standard.py uses it:    *)
(* self.data is the list of field values in schema order (standard.py      *)
(* writes data[0] for the first field and data[2] for bNumEndpoints).      *)
EXTENDS Integers, Sequences, FiniteSets, TLC

VARIABLES
    desc,       \* the descriptor object under construction, or NoDesc
    args,       \* the arguments of the constructor call that made (or failed to make) it
    following,  \* the descriptors the caller places after a Configuration
    out,        \* what the last call returned or raised
    prevCount   \* history: bNumEndpoints emitted by the last serialization before a mutation

vars == <<desc, args, following, out, prevCount>>

(***************************************************************************)
(* Bounds                                                                  *)
(***************************************************************************)
MaxChildren == 3
MaxText == 2

(***************************************************************************)
(* Values                                                                  *)
(***************************************************************************)
\* the "no default" marker of the field tables: no unsigned value
None == -1
NoDesc == [cls |-> "NoDesc"]

\* struct format characters used by the field tables
Width(fmt) == IF fmt = "B" THEN 1 ELSE 2

Pow256(w) == IF w = 1 THEN 256 ELSE 65536

Fits(v, w) == v \in 0..(Pow256(w) - 1)

\* unsigned little-endian packing of v on w bytes
LE(v, w) == [i \in 1..w |-> IF i = 1 THEN v % 256 ELSE (v \div 256) % 256]

F(name, fmt, default) == [name |-> name, fmt |-> fmt, default |-> default]

(***************************************************************************)
(* The schema tables of standard.py                                        *)
(***************************************************************************)
Classes == {"Endpoint", "Interface", "InterfaceAssociation", "Configuration", "Device"}

EndpointDescriptor_fields ==
    << F("bEndpointAddress", "B", None), F("bmAttributes", "B", None),
       F("wMaxPacketSize", "H", 64), F("bInterval", "B", 0) >>

EndpointDescriptor_bLength == 7

EndpointDescriptor_bDescriptorType == 5

\* mutant: bInterfaceClass declared with a default of 0 instead of None
InterfaceDescriptor_fields_ClassDefault ==
    << F("bInterfaceNumber", "B", 0), F("bAlternateSetting", "B", 0),
       F("bNumEndpoints", "B", 0), F("bInterfaceClass", "B", 0),
       F("bInterfaceSubClass", "B", 0), F("bInterfaceProtocol", "B", 0),
       F("iInterface", "B", 0) >>

InterfaceDescriptor_fields ==
    << F("bInterfaceNumber", "B", 0), F("bAlternateSetting", "B", 0),
       F("bNumEndpoints", "B", 0), F("bInterfaceClass", "B", None),
       F("bInterfaceSubClass", "B", 0), F("bInterfaceProtocol", "B", 0),
       F("iInterface", "B", 0) >>

InterfaceDescriptor_bLength == 9

InterfaceDescriptor_bDescriptorType == 4

InterfaceAssociationDescriptor_fields ==
    << F("bFirstInterface", "B", None), F("bInterfaceCount", "B", None),
       F("bFunctionClass", "B", None), F("bFunctionSubClass", "B", None),
       F("bFunctionProtocol", "B", None), F("iFunction", "B", 0) >>

InterfaceAssociationDescriptor_bLength == 8

InterfaceAssociationDescriptor_bDescriptorType == 11

\* mutant: wTotalLength declared "B", one byte wide
ConfigurationDescriptor_fields_TotalLengthByte ==
    << F("wTotalLength", "B", None), F("bNumInterfaces", "B", None),
       F("bConfigurationValue", "B", 1), F("iConfiguration", "B", 0),
       F("bmAttributes", "B", 128), F("bMaxPower", "B", 50) >>

\* mutant: bNumInterfaces declared with a default of 0 instead of None
ConfigurationDescriptor_fields_NumInterfacesDefault ==
    << F("wTotalLength", "H", None), F("bNumInterfaces", "B", 0),
       F("bConfigurationValue", "B", 1), F("iConfiguration", "B", 0),
       F("bmAttributes", "B", 128), F("bMaxPower", "B", 50) >>

ConfigurationDescriptor_fields ==
    << F("wTotalLength", "H", None), F("bNumInterfaces", "B", None),
       F("bConfigurationValue", "B", 1), F("iConfiguration", "B", 0),
       F("bmAttributes", "B", 128), F("bMaxPower", "B", 50) >>

ConfigurationDescriptor_bLength == 9

ConfigurationDescriptor_bDescriptorType == 2

\* mutant: bcdDevice declared "B", so the record is one byte short of bLength
DeviceDescriptor_fields_BcdDeviceByte ==
    << F("bcdUSB", "H", 512), F("bDeviceClass", "B", 239),
       F("bDeviceSubClass", "B", 2), F("bDeviceProtocol", "B", 1),
       F("bMaxPacketSize0", "B", 64), F("idVendor", "H", None),
       F("idProduct", "H", None), F("bcdDevice", "B", 1),
       F("iManufacturer", "B", None), F("iProduct", "B", None),
       F("iSerialNumber", "B", None), F("bNumConfigurations", "B", 1) >>

DeviceDescriptor_fields ==
    << F("bcdUSB", "H", 512), F("bDeviceClass", "B", 239),
       F("bDeviceSubClass", "B", 2), F("bDeviceProtocol", "B", 1),
       F("bMaxPacketSize0", "B", 64), F("idVendor", "H", None),
       F("idProduct", "H", None), F("bcdDevice", "H", 256),
       F("iManufacturer", "B", None), F("iProduct", "B", None),
       F("iSerialNumber", "B", None), F("bNumConfigurations", "B", 1) >>

DeviceDescriptor_bLength == 18

DeviceDescriptor_bDescriptorType == 1

StringDescriptor_bDescriptorType == 3

\* the class attributes, by class
Fields(cls) ==
    CASE cls = "Endpoint" -> EndpointDescriptor_fields
      [] cls = "Interface" -> InterfaceDescriptor_fields
      [] cls = "InterfaceAssociation" -> InterfaceAssociationDescriptor_fields
      [] cls = "Configuration" -> ConfigurationDescriptor_fields
      [] cls = "Device" -> DeviceDescriptor_fields

bLength(cls) ==
    CASE cls = "Endpoint" -> EndpointDescriptor_bLength
      [] cls = "Interface" -> InterfaceDescriptor_bLength
      [] cls = "InterfaceAssociation" -> InterfaceAssociationDescriptor_bLength
      [] cls = "Configuration" -> ConfigurationDescriptor_bLength
      [] cls = "Device" -> DeviceDescriptor_bLength

bDescriptorType(cls) ==
    CASE cls = "Endpoint" -> EndpointDescriptor_bDescriptorType
      [] cls = "Interface" -> InterfaceDescriptor_bDescriptorType
      [] cls = "InterfaceAssociation" -> InterfaceAssociationDescriptor_bDescriptorType
      [] cls = "Configuration" -> ConfigurationDescriptor_bDescriptorType
      [] cls = "Device" -> DeviceDescriptor_bDescriptorType
      [] cls = "String" -> StringDescriptor_bDescriptorType

\* position of a field in self.data (1-based here, 0-based in the source)
FieldIndex(cls, name) ==
    CHOOSE i \in 1..Len(Fields(cls)) : Fields(cls)[i].name = name

(***************************************************************************)
(* core.Descriptor, from the specification                                 *)
(***************************************************************************)
RECURSIVE CreateFrom(_, _, _, _)
\* the data list built field by field; stops at the first error
CreateFrom(fs, kw, i, acc) ==
    IF i > Len(fs) THEN [status |-> "ok", data |-> acc]
    ELSE IF fs[i].name \in DOMAIN kw
         THEN IF Fits(kw[fs[i].name], Width(fs[i].fmt))
              THEN CreateFrom(fs, kw, i + 1, Append(acc, kw[fs[i].name]))
              ELSE [status |-> "ValueOutOfRangeError", data |-> << >>]
         ELSE IF fs[i].default # None
              THEN CreateFrom(fs, kw, i + 1, Append(acc, fs[i].default))
              ELSE [status |-> "MissingFieldError", data |-> << >>]

CoreInit(cls, kw) == CreateFrom(Fields(cls), kw, 1, << >>)

RECURSIVE PackFields(_, _, _)
PackFields(fs, data, i) ==
    IF i > Len(fs) THEN << >>
    ELSE LE(data[i], Width(fs[i].fmt)) \o PackFields(fs, data, i + 1)

\* struct.pack of the header and the field values; struct.error when a
\* value does not fit its format
CoreBytes(cls, data) ==
    IF \A i \in 1..Len(Fields(cls)) : Fits(data[i], Width(Fields(cls)[i].fmt))
    THEN [status |-> "ok",
          bytes |-> <<bLength(cls), bDescriptorType(cls)>> \o PackFields(Fields(cls), data, 1)]
    ELSE [status |-> "struct.error", bytes |-> << >>]

(***************************************************************************)
(* StringDescriptor                                                        *)
(***************************************************************************)
\* str.encode("utf-16-le") of one code point: one 16-bit unit below
\* 0x10000, a surrogate pair otherwise; every unit low byte first
EncodeChar(c) ==
    IF c < 65536 THEN <<c % 256, c \div 256>>
    ELSE LET v == c - 65536
             hi == 55296 + (v \div 1024)
             lo == 56320 + (v % 1024)
         IN <<hi % 256, hi \div 256, lo % 256, lo \div 256>>

RECURSIVE Encode(_)
\* the encodings of the characters, in order (split in halves to keep the
\* evaluation shallow)
Encode(text) ==
    IF text = << >> THEN << >>
    ELSE IF Len(text) = 1 THEN EncodeChar(text[1])
    ELSE LET h == Len(text) \div 2
         IN Encode(SubSeq(text, 1, h)) \o Encode(SubSeq(text, h + 1, Len(text)))

\* Python's value[a:b] on a sequence (0-based, end exclusive, clipped)
Slice(s, a, b) ==
    LET hi == IF b > Len(s) THEN Len(s) ELSE b
    IN IF a >= hi THEN << >> ELSE SubSeq(s, a + 1, hi)

StringInit(value) ==
    IF value.type = "str"
    THEN [status |-> "ok",
          obj |-> [cls |-> "String", hasattrs |-> TRUE, bString |-> Encode(value.v),
                   bLength |-> Len(Encode(value.v)) + 2]]
    ELSE IF Len(value.v) > 1
         THEN IF value.v[2] # 3
              THEN [status |-> "ValueError", obj |-> NoDesc]
              ELSE [status |-> "ok",
                    obj |-> [cls |-> "String", hasattrs |-> TRUE,
                             bString |-> Slice(value.v, 2, 2 + value.v[1]),
                             bLength |-> value.v[1]]]
         ELSE [status |-> "ok",
               obj |-> [cls |-> "String", hasattrs |-> FALSE,
                        bString |-> << >>, bLength |-> 0]]

StringBytes(s) ==
    IF ~s.hasattrs THEN [status |-> "AttributeError", bytes |-> << >>]
    ELSE IF ~Fits(s.bLength, 1) THEN [status |-> "struct.error", bytes |-> << >>]
    ELSE [status |-> "ok", bytes |-> <<s.bLength, bDescriptorType("String")>> \o s.bString]

\* the bString setter: _bString is assigned, then self.encoded does not exist
StringSetter(s, text) ==
    [status |-> "AttributeError",
     obj |-> [s EXCEPT !.bString = Encode(text)]]

(***************************************************************************)
(* InterfaceDescriptor                                                     *)
(***************************************************************************)
RECURSIVE DescBytes(_)

RECURSIVE Join(_)
\* b"".join(parts)
Join(parts) ==
    IF parts = << >> THEN << >> ELSE Head(parts) \o Join(Tail(parts))

Reverse(s) == [i \in 1..Len(s) |-> s[Len(s) + 1 - i]]

RECURSIVE SubdescriptorLoop(_, _, _, _)
\* the for loop of InterfaceDescriptor.__bytes__: bytes(desc) of each
\* subdescriptor in list order, counting those of the Endpoint type; an
\* exception of bytes(desc) leaves the loop
SubdescriptorLoop(subs, i, endpoint_count, subdescriptor_bytes) ==
    IF i > Len(subs)
    THEN [status |-> "ok", endpoint_count |-> endpoint_count,
          subdescriptor_bytes |-> subdescriptor_bytes]
    ELSE LET b == DescBytes(subs[i])
         IN IF b.status # "ok"
            THEN [status |-> b.status, endpoint_count |-> endpoint_count,
                  subdescriptor_bytes |-> subdescriptor_bytes]
            ELSE SubdescriptorLoop(subs, i + 1,
                     IF bDescriptorType(subs[i].cls) = EndpointDescriptor_bDescriptorType
                     THEN endpoint_count + 1 ELSE endpoint_count,
                     Append(subdescriptor_bytes, b.bytes))

\* what __bytes__ does after the loop with the count it is given and the
\* parts in the order it is given
AfterLoop(data, r, count, parts) ==
    IF r.status # "ok"
    THEN [status |-> r.status, bytes |-> << >>, data |-> data]
    ELSE LET d2 == [data EXCEPT ![3] = count]
             own == CoreBytes("Interface", d2)
         IN [status |-> own.status,
             bytes |-> IF own.status = "ok" THEN own.bytes \o Join(parts) ELSE << >>,
             data |-> d2]

\* mutant: every subdescriptor is counted, whatever its type
InterfaceBytes_CountAll(data, subs) ==
    LET r == SubdescriptorLoop(subs, 1, 0, << >>)
    IN AfterLoop(data, r, Len(subs), r.subdescriptor_bytes)

\* mutant: the subdescriptors are emitted last to first
InterfaceBytes_Reversed(data, subs) ==
    LET r == SubdescriptorLoop(subs, 1, 0, << >>)
    IN AfterLoop(data, r, r.endpoint_count, Reverse(r.subdescriptor_bytes))

\* mutant: the count is cached, written only while data[2] is still 0
InterfaceBytes_Cached(data, subs) ==
    LET r == SubdescriptorLoop(subs, 1, 0, << >>)
    IN AfterLoop(data, r, IF data[3] = 0 THEN r.endpoint_count ELSE data[3],
                 r.subdescriptor_bytes)

\* InterfaceDescriptor.__bytes__: status, bytes returned, and self.data after
InterfaceBytes(data, subs) ==
    LET r == SubdescriptorLoop(subs, 1, 0, << >>)
    IN AfterLoop(data, r, r.endpoint_count, r.subdescriptor_bytes)

\* bytes(d) of any descriptor object
DescBytes(d) ==
    CASE d.cls = "Interface" -> InterfaceBytes(d.data, d.subdescriptors)
      [] d.cls = "String" -> StringBytes(d)
      [] OTHER -> CoreBytes(d.cls, d.data)

\* InterfaceDescriptor.__init__ and the inherited __init__ of the others
NewDescriptor(cls, kw) ==
    LET r == CoreInit(cls, kw)
    IN IF r.status # "ok" THEN [status |-> r.status, obj |-> NoDesc]
       ELSE IF cls = "Interface"
            THEN [status |-> "ok",
                  obj |-> [cls |-> cls, data |-> r.data,
                           subdescriptors |-> IF "subdescriptors" \in DOMAIN kw
                                              THEN kw.subdescriptors ELSE << >>]]
            ELSE [status |-> "ok", obj |-> [cls |-> cls, data |-> r.data]]

\* the bEndpointAddress and bInterfaceNumber properties
bEndpointAddress(d) == d.data[1]

bInterfaceNumber(d) == d.data[1]

SetFirstField(d, value) == [d EXCEPT !.data[1] = value]

(***************************************************************************)
(* Inputs                                                                  *)
(***************************************************************************)
EpIn == [cls |-> "Endpoint", data |-> <<129, 2, 64, 0>>]
Iad == [cls |-> "InterfaceAssociation", data |-> <<0, 2, 2, 2, 0, 0>>]
StrHi == [cls |-> "String", hasattrs |-> TRUE, bString |-> <<72, 0, 105, 0>>, bLength |-> 6]
IfaceEp == [cls |-> "Interface", data |-> <<0, 0, 0, 3, 0, 0, 0>>, subdescriptors |-> <<EpIn>>]

\* what may be appended to an Interface, and what may follow a Configuration
SubPool == {EpIn, Iad, StrHi}
FollowPool == {IfaceEp, Iad}

KwargsOf(cls) ==
    CASE cls = "Endpoint" ->
           { [bEndpointAddress |-> 129, bmAttributes |-> 2],
             [bEndpointAddress |-> 255, bmAttributes |-> 3, wMaxPacketSize |-> 512],
             [bEndpointAddress |-> 129],
             [bEndpointAddress |-> 256, bmAttributes |-> 2] }
      [] cls = "Interface" ->
           { [bInterfaceNumber |-> 1, bInterfaceClass |-> 3],
             [bInterfaceClass |-> 3],
             [bInterfaceNumber |-> 1],
             [bInterfaceClass |-> 3, bNumEndpoints |-> 7],
             [bInterfaceClass |-> 3, subdescriptors |-> <<EpIn>>],
             [bInterfaceNumber |-> 256, bInterfaceClass |-> 3] }
      [] cls = "InterfaceAssociation" ->
           { [bFirstInterface |-> 0, bInterfaceCount |-> 2, bFunctionClass |-> 2,
              bFunctionSubClass |-> 2, bFunctionProtocol |-> 0],
             [bFirstInterface |-> 0, bInterfaceCount |-> 2] }
      [] cls = "Configuration" ->
           { [wTotalLength |-> w, bNumInterfaces |-> n] : w \in {9, 25, 300}, n \in {0, 1} }
           \cup { [bNumInterfaces |-> 1], [wTotalLength |-> 25],
                  [wTotalLength |-> 65536, bNumInterfaces |-> 1] }
      [] cls = "Device" ->
           { [idVendor |-> 9114, idProduct |-> 32801, iManufacturer |-> 1,
              iProduct |-> 2, iSerialNumber |-> 3],
             [idVendor |-> 9114, idProduct |-> 32801] }

SetValues == {0, 255, 256}

Alphabet == {72, 105, 128512}

SeqsUpTo(S, n) == UNION {[1..k -> S] : k \in 0..n}

ShortTexts == SeqsUpTo(Alphabet, MaxText)

\* texts whose encoding is 252 and 254 bytes long
LongTexts == {[i \in 1..n |-> 72] : n \in {126, 127}}

Trailers == {<< >>, <<7>>, <<8, 3>>}

\* wire images: a header, an encoded text, and possibly bytes after it;
\* one with another descriptor type; two too short to hold a header
RawValues ==
    { <<Len(Encode(t)) + 2, 3>> \o Encode(t) \o tr :
          t \in SeqsUpTo(Alphabet, MaxText - 1), tr \in Trailers }
    \cup { <<4, 2, 72, 0>>, <<2>>, << >> }

StringValues ==
    { [type |-> "str", v |-> t] : t \in ShortTexts \cup LongTexts }
    \cup { [type |-> "bytes", v |-> r] : r \in RawValues }

(***************************************************************************)
(* The state machine                                                       *)
(***************************************************************************)
Result(op, status, bytes) == [op |-> op, status |-> status, bytes |-> bytes]

\* the history variable: remember the count emitted by a serialization
\* when the Interface is mutated after it
Remember ==
    IF desc.cls = "Interface" /\ out.op = "serialize" /\ out.status = "ok"
    THEN out.bytes[5] ELSE prevCount

Init ==
    /\ desc = NoDesc
    /\ args = [cls |-> "NoDesc"]
    /\ following = << >>
    /\ out = Result("none", "ok", << >>)
    /\ prevCount = -1

\* a descriptor is built once; a constructor that raised may be called again
Create(cls, kw) ==
    LET r == NewDescriptor(cls, kw)
    IN /\ desc.cls = "NoDesc"
       /\ desc' = r.obj
       /\ args' = [cls |-> cls, kw |-> kw]
       /\ following' = << >>
       /\ out' = Result("create", r.status, << >>)
       /\ prevCount' = -1

CreateString(value) ==
    LET r == StringInit(value)
    IN /\ desc.cls = "NoDesc"
       /\ desc' = r.obj
       /\ args' = [cls |-> "String", value |-> value]
       /\ following' = << >>
       /\ out' = Result("create", r.status, << >>)
       /\ prevCount' = -1

\* interface.subdescriptors.append(child)
AppendChild(child) ==
    /\ desc.cls = "Interface"
    /\ Len(desc.subdescriptors) < MaxChildren
    /\ desc' = [desc EXCEPT !.subdescriptors = Append(@, child)]
    /\ out' = Result("append", "ok", << >>)
    /\ prevCount' = Remember
    /\ UNCHANGED <<args, following>>

\* the caller lines a descriptor up behind a Configuration; the
\* ConfigurationDescriptor object itself holds no list
Follow(child) ==
    /\ desc.cls = "Configuration"
    /\ Len(following) < MaxChildren
    /\ following' = Append(following, child)
    /\ out' = Result("append", "ok", << >>)
    /\ UNCHANGED <<desc, args, prevCount>>

SetField(value) ==
    /\ desc.cls \in {"Endpoint", "Interface"}
    /\ desc' = SetFirstField(desc, value)
    /\ out' = Result("set", "ok", << >>)
    /\ prevCount' = Remember
    /\ UNCHANGED <<args, following>>

SetString(text) ==
    /\ desc.cls = "String"
    /\ LET r == StringSetter(desc, text)
       IN /\ desc' = r.obj
          /\ out' = Result("set", r.status, << >>)
    /\ UNCHANGED <<args, following, prevCount>>

Serialize ==
    /\ desc.cls # "NoDesc"
    /\ LET r == DescBytes(desc)
       IN /\ desc' = IF desc.cls = "Interface" THEN [desc EXCEPT !.data = r.data] ELSE desc
          /\ out' = Result("serialize", r.status, r.bytes)
    /\ UNCHANGED <<args, following, prevCount>>

Next ==
    \/ \E cls \in Classes : \E kw \in KwargsOf(cls) : Create(cls, kw)
    \/ \E value \in StringValues : CreateString(value)
    \/ \E child \in SubPool : AppendChild(child)
    \/ \E child \in FollowPool : Follow(child)
    \/ \E value \in SetValues : SetField(value)
    \/ \E text \in ShortTexts : SetString(text)
    \/ Serialize

Spec == Init /\ [][Next]_vars

(***************************************************************************)
(* Vocabulary of the properties                                            *)
(***************************************************************************)
Serialized == out.op = "serialize" /\ out.status = "ok"

\* the unsigned 16-bit little-endian value at byte offsets i, i+1 (1-based)
U16(bytes, i) == bytes[i] + 256 * bytes[i + 1]

\* the number of direct children of descriptor type t
NumOfType(children, t) ==
    Cardinality({i \in 1..Len(children) : bDescriptorType(children[i].cls) = t})

RECURSIVE SumLen(_, _)
\* the serialized length of the first n children, descendants included
SumLen(children, n) ==
    IF n = 0 THEN 0 ELSE SumLen(children, n - 1) + Len(DescBytes(children[n]).bytes)

\* bytes is a record of recLen bytes followed by the serializations of the
\* children, each at the offset the ones before it leave, and nothing else
RecordThenChildren(bytes, recLen, children) ==
    /\ Len(bytes) = recLen + SumLen(children, Len(children))
    /\ \A i \in 1..Len(children) :
          SubSeq(bytes, recLen + SumLen(children, i - 1) + 1, recLen + SumLen(children, i))
              = DescBytes(children[i]).bytes

SumWidths(fs) == Len(PackFields(fs, [i \in 1..Len(fs) |-> 0], 1))

\* the table of section 4.3
TableLength(cls) ==
    CASE cls = "Device" -> 18 [] cls = "Configuration" -> 9 [] cls = "Interface" -> 9
      [] cls = "InterfaceAssociation" -> 8 [] cls = "Endpoint" -> 7

TableType(cls) ==
    CASE cls = "Device" -> 1 [] cls = "Configuration" -> 2 [] cls = "Interface" -> 4
      [] cls = "InterfaceAssociation" -> 11 [] cls = "Endpoint" -> 5

\* every keyword argument that names a field fits the field's width
SuppliedFit(cls, kw) ==
    \A i \in 1..Len(Fields(cls)) :
        Fields(cls)[i].name \in DOMAIN kw =>
            Fits(kw[Fields(cls)[i].name], Width(Fields(cls)[i].fmt))

(***************************************************************************)
(* C1: an Interface serializes with bNumEndpoints (byte offset 4) equal to *)
(* the number of its subdescriptors of the Endpoint type, whatever         *)
(* bNumEndpoints was given at creation and whatever else is in the list;   *)
(* the serialization succeeds whenever the interface number fits a byte.   *)
(***************************************************************************)
C1_EndpointCount ==
    (desc.cls = "Interface" /\ out.op = "serialize") =>
        /\ Fits(desc.data[1], 1) => out.status = "ok"
        /\ out.status = "ok" =>
              out.bytes[5] = NumOfType(desc.subdescriptors, EndpointDescriptor_bDescriptorType)

\* created with bNumEndpoints = 7, then endpoint, other, endpoint: emits 2
C1_Witness ==
    /\ desc.cls = "Interface" /\ Serialized
    /\ "bNumEndpoints" \in DOMAIN args.kw /\ args.kw.bNumEndpoints = 7
    /\ desc.subdescriptors = <<EpIn, Iad, EpIn>>
    /\ out.bytes[5] = 2

C6_LongTextRejected ==
    /\ (args.cls = "String" /\ out.op = "create" /\ args.value.type = "str"
          /\ Len(Encode(args.value.v)) > 253)
         => (out.status = "StringTooLongError" /\ desc.cls = "NoDesc")
    /\ (desc.cls = "String" /\ args.value.type = "str" /\ desc.hasattrs)
         => desc.bLength <= 255

\* the wire image the string was built from has raw[1] = 3 and
\* len(raw) >= raw[0] >= 2
C7_WellFormedWire ==
    /\ args.value.type = "bytes"
    /\ Len(args.value.v) >= 2
    /\ args.value.v[2] = 3
    /\ args.value.v[1] >= 2
    /\ Len(args.value.v) >= args.value.v[1]

(***************************************************************************)
(* C7 as stated: a string descriptor built from text, built from wire      *)
(* bytes raw with raw[1] = 3 and len(raw) >= raw[0] >= 2, or given new     *)
(* text through the bString setter, always has length = encoded bytes + 2, *)
(* serializes with a first byte equal to the number of bytes emitted, and, *)
(* built from wire bytes, holds exactly raw[2:raw[0]].                     *)
(***************************************************************************)
C7_LengthInvariant ==
    (desc.cls = "String" /\ (args.value.type = "str" \/ C7_WellFormedWire)) =>
        /\ desc.bLength = Len(desc.bString) + 2
        /\ Serialized => (out.bytes[1] = Len(out.bytes) /\ out.bytes[2] = 3)
        /\ (out.op = "create" /\ args.value.type = "bytes") =>
              desc.bString = Slice(args.value.v, 2, args.value.v[1])

(***************************************************************************)
(* C8 as stated: a one-byte field never holds a value outside 0..255: a    *)
(* set of 256 is refused at the set call and the stored value stays.       *)
(***************************************************************************)
C8_FieldStaysInRange ==
    /\ desc.cls = "Endpoint" => bEndpointAddress(desc) \in 0..255
    /\ desc.cls = "Interface" => bInterfaceNumber(desc) \in 0..255

(***************************************************************************)
(* C9: for each of the five schemas bLength is 2 plus the sum of the field *)
(* widths and is the table's value (18, 9, 9, 8, 7), bDescriptorType is    *)
(* the table's (1, 2, 4, 11, 5); a serialized descriptor starts with these *)
(* two bytes and its own record is bLength bytes long.                     *)
(***************************************************************************)
C9_RecordLengths ==
    /\ \A cls \in Classes :
          /\ bLength(cls) = 2 + SumWidths(Fields(cls))
          /\ bLength(cls) = TableLength(cls)
          /\ bDescriptorType(cls) = TableType(cls)
    /\ (desc.cls \in Classes /\ Serialized) =>
          /\ out.bytes[1] = TableLength(desc.cls)
          /\ out.bytes[2] = TableType(desc.cls)
          /\ out.bytes[1] = Len(out.bytes)
                - (IF desc.cls = "Interface"
                   THEN SumLen(desc.subdescriptors, Len(desc.subdescriptors)) ELSE 0)

C9_Witness ==
    /\ desc.cls = "Device" /\ Serialized
    /\ Len(out.bytes) = 18

(***************************************************************************)
(* C10 as stated: creating an Interface without bInterfaceNumber fails     *)
(* with MissingFieldError, as does creating it without bInterfaceClass.    *)
(***************************************************************************)
C10_NumberAndClassRequired ==
    (args.cls = "Interface" /\ out.op = "create"
       /\ ("bInterfaceNumber" \notin DOMAIN args.kw \/ "bInterfaceClass" \notin DOMAIN args.kw))
      => (out.status = "MissingFieldError" /\ desc.cls = "NoDesc")

(***************************************************************************)
(* C10 amended: only bInterfaceClass is required: creation without it      *)
(* yields no descriptor (MissingFieldError when what was supplied fits);   *)
(* bInterfaceNumber, like bAlternateSetting, bInterfaceSubClass,           *)
(* bInterfaceProtocol and iInterface, is 0 when not supplied.              *)
(***************************************************************************)
C10_ClassRequired ==
    (args.cls = "Interface" /\ out.op = "create") =>
        /\ "bInterfaceClass" \notin DOMAIN args.kw =>
              /\ desc.cls = "NoDesc"
              /\ SuppliedFit("Interface", args.kw) => out.status = "MissingFieldError"
        /\ ("bInterfaceClass" \in DOMAIN args.kw /\ SuppliedFit("Interface", args.kw)) =>
              /\ out.status = "ok"
              /\ \A name \in {"bInterfaceNumber", "bAlternateSetting", "bInterfaceSubClass",
                              "bInterfaceProtocol", "iInterface"} :
                    name \notin DOMAIN args.kw => desc.data[FieldIndex("Interface", name)] = 0

\* created from the class alone: the interface number is 0
C10_Witness ==
    /\ args.cls = "Interface" /\ out.op = "create" /\ out.status = "ok"
    /\ "bInterfaceNumber" \notin DOMAIN args.kw
    /\ bInterfaceNumber(desc) = 0

=============================================================================
